---- MODULE Spec2Model ----
(***************************************************************************)
(* A model of cf-ai-chat (src/cf-ai-chat/src/index.ts): the Worker's fetch *)
(* handler (the request router) and the MyDurableObject class (one SQLite  *)
(* backed chat session per name).                                          *)
(*                                                                         *)
(* Granularity.  A Durable Object runs JavaScript on one thread.  A step   *)
(* of the model is one run of a method from the delivery of an event to    *)
(* the next await on real I/O.  sql.exec is synchronous and addMessage,    *)
(* getHistory and clearHistory hold no await, so "await this.addMessage()" *)
(* and "await this.getHistory()" only resume in a microtask of the same    *)
(* turn; the one await on real I/O inside the object is env.AI.run (line   *)
(* 91).  While a chat call waits there the object accepts other calls.     *)
(* The Worker's fetch waits at "await request.json()" (line 126) and at    *)
(* each "await stub.method()" (lines 137, 161, 178): the receipt of a      *)
(* request, the reading of its body, the run of the method inside the      *)
(* session object and the building of the response are steps of their own, *)
(* and other requests are served between them.                             *)
(*                                                                         *)
(* The column created_at is written by its DEFAULT and read by no          *)
(* statement of the program; rows are modelled as (id, role, content).     *)
(***************************************************************************)
EXTENDS Integers, Sequences, FiniteSets, TLC

\* ------------------------------------------------------------------ bounds
\* Number of HTTP requests sent to the Worker in one behaviour.
MaxReq == 2
\* Number of direct method calls made on session objects in one behaviour.
MaxCalls == 4

\* --------------------------------------------------------- JavaScript values
Undefined == [t |-> "undefined"]
Null == [t |-> "null"]
Str(s) == [t |-> "string", v |-> s]
Num(n) == [t |-> "number", v |-> n]
\* An object as returned by env.AI.run: { response?: string }.
Obj(r) == [t |-> "object", response |-> r]
\* An array, as returned by getHistory().
Arr(items) == [t |-> "array", items |-> items]

\* JavaScript truthiness, as used by "!message" and "||".
Truthy(x) ==
    CASE x.t = "undefined" -> FALSE
      [] x.t = "null" -> FALSE
      [] x.t = "string" -> x.v # ""
      [] x.t = "number" -> x.v # 0
      [] OTHER -> TRUE

\* typeof x === "string"
IsString(x) == x.t = "string"

\* a || b
Or(a, b) == IF Truthy(a) THEN a ELSE b

\* A destructuring default, { x = d }: d replaces undefined only.
DefaultParam(x, d) == IF x.t = "undefined" THEN d ELSE x

\* ------------------------------------------------------------ program text
SystemPrompt ==
    "You are a helpful, friendly AI assistant. Keep your responses concise but informative."
Apology == "I apologize, but I couldn't generate a response."
MessageRequired == "Message is required"
ChatFailed == "Failed to process chat request"
NotFound == "Not Found"
DefaultSession == "default"

ChatMessage(role, content) == [role |-> role, content |-> content]

\* ------------------------------------------------------------ input domains
Methods == {"OPTIONS", "GET", "POST", "DELETE"}
Paths == {"/api/chat", "/api/history", "/api/clear", "/api/health", "/"}
\* The message field of a chat body: absent, empty, not a string, or a text.
MessageInputs == {Undefined, Str(""), Num(42), Str("hello")}
\* The sessionId field of a chat body: absent or a string.
BodySessionInputs == {Undefined, Str(""), Str("abc")}
\* url.searchParams.get("sessionId"): null when absent, else a string.
QuerySessionInputs == {Null, Str(""), Str("abc")}
\* The names under which session objects are reached.
SessionNames == {DefaultSession, "", "abc"}
\* What env.AI.run resolves to: a plain string or an object.
AiResults ==
    {Str("Hello!"), Str(""), Obj(Str("Hello!")), Obj(Str("")), Obj(Undefined)}
Roles == {"user", "assistant", "system"}
\* Contents used by direct addMessage calls.
Contents == {"a", "b"}
\* new Date().toISOString() at the time of a health check: the clock
\* reading as an ISO 8601 text.
Times == {"2026-01-01T00:00:00.000Z", "2026-01-01T00:00:00.001Z"}

\* --------------------------------------------------- the messages table
\* A table is a set of rows (id, role, content); id is the primary key.
Max(S) == CHOOSE x \in S : \A y \in S : y <= x

\* Mutant of NextId: INTEGER PRIMARY KEY without AUTOINCREMENT, one more
\* than the largest id now in the table.
NextIdOfRows(rows, seqno) == Max({0} \cup {r.id : r \in rows}) + 1

\* INTEGER PRIMARY KEY AUTOINCREMENT: the new id is one more than the
\* largest id the table has ever held (kept in sqlite_sequence).
NextId(rows, seqno) == Max({seqno} \cup {r.id : r \in rows}) + 1

\* Mutant of SqlInsert: the two bound values are passed in the wrong order.
SqlInsertSwapped(rows, seqno, role, content) ==
    rows \cup {[id |-> NextId(rows, seqno), role |-> content, content |-> role]}

\* INSERT INTO messages (role, content) VALUES (?, ?)
SqlInsert(rows, seqno, role, content) ==
    rows \cup {[id |-> NextId(rows, seqno), role |-> role, content |-> content]}

\* DELETE FROM messages (sqlite_sequence is left as it is)
SqlDelete(rows) == {}

\* Mutant of SqlSelect: the statement consumes the rows it returns
\* (DELETE FROM messages RETURNING role, content).
SqlSelectConsumes(rows) == {}

\* SELECT role, content FROM messages ...: the rows of the table afterwards.
SqlSelect(rows) == rows

\* Mutant of OrderByIdAsc: ORDER BY id DESC.
RECURSIVE OrderByIdDesc(_)
OrderByIdDesc(rows) ==
    IF rows = {} THEN <<>>
    ELSE LET first == CHOOSE r \in rows : \A q \in rows : r.id >= q.id
         IN <<first>> \o OrderByIdDesc(rows \ {first})

\* ... ORDER BY id ASC: the rows in ascending order of id.
RECURSIVE OrderByIdAsc(_)
OrderByIdAsc(rows) ==
    IF rows = {} THEN <<>>
    ELSE LET first == CHOOSE r \in rows : \A q \in rows : r.id <= q.id
         IN <<first>> \o OrderByIdAsc(rows \ {first})

\* Mutant of GetHistory: the first row of the cursor is skipped.
GetHistorySkipsFirst(rows) ==
    LET cursor == OrderByIdAsc(rows)
    IN [i \in 1..(Len(cursor) - 1) |->
            ChatMessage(cursor[i + 1].role, cursor[i + 1].content)]

\* SELECT role, content FROM messages ORDER BY id ASC, pushed row by row
\* into a ChatMessage[].
GetHistory(rows) ==
    LET cursor == OrderByIdAsc(rows)
    IN [i \in 1..Len(cursor) |->
            ChatMessage(cursor[i].role, cursor[i].content)]

\* Mutant of AssistantMessage: the fallback text is left out, so an absent
\* response field is stored as the text of undefined.
AssistantMessageNoFallback(response) ==
    IF IsString(response) THEN response.v
    ELSE IF IsString(response.response) THEN response.response.v
    ELSE "undefined"

\* The text chat() takes from what env.AI.run resolved to (lines 96-99).
AssistantMessage(response) ==
    IF IsString(response) THEN response.v
    ELSE Or(response.response, Str(Apology)).v

\* Mutant of GetByName: every name reaches one and the same object.
GetByNameShared(name) == DefaultSession

\* env.MY_DURABLE_OBJECT.getByName(name): the object of that name.
GetByName(name) == name

\* ------------------------------------------------------------------- state
VARIABLES
    table,            \* per session object: the rows of its messages table
    sqlite_sequence,  \* per session object: the largest id ever assigned
    reqs,             \* the HTTP requests received so far, in arrival order
    log,              \* history: the SQL statements executed, in order
    ncalls            \* the number of direct method calls made so far

vars == <<table, sqlite_sequence, reqs, log, ncalls>>

Init ==
    /\ table = [n \in SessionNames |-> {}]
    /\ sqlite_sequence = [n \in SessionNames |-> 0]
    /\ reqs = <<>>
    /\ log = <<>>
    /\ ncalls = 0

\* ------------------------------------------------------------- the history
\* One entry of log per SQL statement executed: the request that made the
\* call (0 for a direct call), the session id the caller addressed, the
\* statement, and the row inserted or the list selected.
NoRow == [id |-> 0, role |-> "", content |-> ""]
Inserted(req, sid, id, role, content) ==
    [req |-> req, sid |-> sid, op |-> "insert",
     row |-> [id |-> id, role |-> role, content |-> content], result |-> <<>>]
Deleted(req, sid) ==
    [req |-> req, sid |-> sid, op |-> "delete", row |-> NoRow, result |-> <<>>]
Selected(req, sid, result) ==
    [req |-> req, sid |-> sid, op |-> "select", row |-> NoRow, result |-> result]

\* ---------------------------------------------------- MyDurableObject
\* The methods as functions of the object's storage (rows, seqno).

\* addMessage(role, content): the rows afterwards.
AddMessage(rows, seqno, role, content) == SqlInsert(rows, seqno, role, content)

\* sqlite_sequence after addMessage.
SeqAfterAdd(rows, seqno) == NextId(rows, seqno)

\* Mutant of ClearHistory: DELETE FROM messages WHERE role = 'user'.
ClearHistoryOfUser(rows) == {r \in rows : r.role # "user"}

\* clearHistory(): the rows afterwards.
ClearHistory(rows) == SqlDelete(rows)

\* Mutant of AiMessages: the system prompt is put after the history.
AiMessagesSystemLast(history) == history \o <<ChatMessage("system", SystemPrompt)>>

\* Mutant of AiMessages: the system prompt is left out.
AiMessagesNoSystem(history) == history

\* The message list chat() builds for env.AI.run (lines 82-88).
AiMessages(history) == <<ChatMessage("system", SystemPrompt)>> \o history

\* ------------------------------------------------------------- the router
\* if (!message || typeof message !== "string") return 400
MessageRejected(message) == ~Truthy(message) \/ ~IsString(message)

\* const { message, sessionId = "default" } = body      (POST /api/chat)
ChatSessionId(sessionId) == DefaultParam(sessionId, Str(DefaultSession)).v

\* url.searchParams.get("sessionId") || "default"   (history and clear)
QuerySessionId(sessionId) == Or(sessionId, Str(DefaultSession)).v

Response(status, body, cors) == [status |-> status, body |-> body, cors |-> cors]
NoBody == [null |-> TRUE]
Pending == Response(0, NoBody, FALSE)

\* Mutant of ChatCatch: the status option is left out, so the status is 200.
ChatCatchNoStatus == Response(200, [error |-> ChatFailed], TRUE)

\* The catch clause of the chat route (lines 148-154).
ChatCatch == Response(500, [error |-> ChatFailed], TRUE)

\* Mutant of Rejected: the call is made again after the rejection.
RejectedRetries(r) == [r EXCEPT !.pc = "calling", !.ai = "rejected"]

\* A chat request whose env.AI.run call rejected: chat throws at line 91
\* and the call on the session object ends with that error.
Rejected(r) == [r EXCEPT !.pc = "returned", !.ai = "rejected"]

\* Mutant of Reply: the error of a chat call is not caught, the handler
\* sends nothing.
ReplyUncaught(r) ==
    IF r.op = "chat" /\ r.ai = "rejected" THEN Pending
    ELSE IF r.op = "chat"
    THEN Response(200, [response |-> r.ret.v, sessionId |-> r.sid], TRUE)
    ELSE IF r.op = "getHistory"
    THEN Response(200, [history |-> r.ret.items, sessionId |-> r.sid], TRUE)
    ELSE Response(200, [success |-> TRUE, sessionId |-> r.sid], TRUE)

\* The response fetch builds once its call on the session object has
\* ended: lines 139-147 and 148-154 (chat), 163-171 (history), 180-188
\* (clear).  r.ret is what the call returned.
Reply(r) ==
    IF r.op = "chat" /\ r.ai = "rejected" THEN ChatCatch
    ELSE IF r.op = "chat"
    THEN Response(200, [response |-> r.ret.v, sessionId |-> r.sid], TRUE)
    ELSE IF r.op = "getHistory"
    THEN Response(200, [history |-> r.ret.items, sessionId |-> r.sid], TRUE)
    ELSE Response(200, [success |-> TRUE, sessionId |-> r.sid], TRUE)

\* A request as the handler sees it.  json: request.json() resolves and its
\* value can be destructured (it rejects on a body that is not JSON, and
\* destructuring throws on the JSON value null).
HttpInputs ==
    [method : Methods, path : Paths, json : BOOLEAN,
     message : MessageInputs,
     sessionId : BodySessionInputs \cup QuerySessionInputs,
     now : Times]

\* The inputs told apart: a field or parameter that the matched route never
\* reads is left at one value.
IsChatRoute(q) == q.path = "/api/chat" /\ q.method = "POST"
IsHistoryRoute(q) == q.path = "/api/history" /\ q.method = "GET"
IsClearRoute(q) == q.path = "/api/clear" /\ q.method = "DELETE"
IsHealthRoute(q) == q.path = "/api/health"

HttpRequests ==
    {q \in HttpInputs :
        /\ IF q.method # "OPTIONS" /\ IsChatRoute(q)
           THEN /\ q.sessionId \in BodySessionInputs
                /\ q.json \/ (q.message = Undefined /\ q.sessionId = Undefined)
                /\ (q.json /\ q.message # Str("hello"))
                       => q.sessionId = Str("abc")
           ELSE q.json /\ q.message = Undefined
        /\ IF q.method # "OPTIONS" /\ (IsHistoryRoute(q) \/ IsClearRoute(q))
           THEN q.sessionId \in QuerySessionInputs
           ELSE IsChatRoute(q) \/ q.sessionId = Null
        /\ (q.method # "OPTIONS" /\ IsHealthRoute(q))
               \/ q.now = "2026-01-01T00:00:00.000Z"}

\* fetch(request, env) from the receipt of a request to its first await,
\* or to its response when it has none: the request's record afterwards.
\*   pc: "body" (the chat route waits for request.json()),
\*       "calling" (a method call on the session object is under way),
\*       "inference" (chat waits for env.AI.run),
\*       "returned" (the call on the object has ended, fetch has not
\*       resumed), "done" (responded).
\*   ai: what became of the call of env.AI.run ("none" before the call,
\*       then "pending", then "resolved" or "rejected"); aiInput: the list
\*       passed to it; aiCalls: how often it was called for this request.
\*   ret: what the call on the session object returned.
\*   h0: history: what getHistory() held when chat() was entered.
Route(q) ==
    LET base == [method |-> q.method, path |-> q.path, json |-> q.json,
                 message |-> q.message, sessionId |-> q.sessionId,
                 now |-> q.now,
                 op |-> "none", sid |-> "", pc |-> "done",
                 resp |-> Pending, ai |-> "none", aiInput |-> <<>>, aiCalls |-> 0,
                 ret |-> Undefined, h0 |-> <<>>]
    IN
    IF q.method = "OPTIONS"
    THEN [base EXCEPT !.resp = Response(200, NoBody, TRUE)]
    ELSE IF IsChatRoute(q)
    THEN [base EXCEPT !.pc = "body"]
    ELSE IF IsHistoryRoute(q)
    THEN [base EXCEPT !.op = "getHistory", !.pc = "calling",
                      !.sid = QuerySessionId(q.sessionId)]
    ELSE IF IsClearRoute(q)
    THEN [base EXCEPT !.op = "clearHistory", !.pc = "calling",
                      !.sid = QuerySessionId(q.sessionId)]
    ELSE IF IsHealthRoute(q)
    THEN [base EXCEPT !.resp = Response(200,
                          [status |-> "ok", timestamp |-> q.now], FALSE)]
    ELSE [base EXCEPT !.resp = Response(404, [text |-> NotFound], FALSE)]

\* The chat route from the settling of request.json() (line 126) to its
\* response or to its call of stub.chat (line 137): the record afterwards.
ChatRoute(r) ==
    IF ~r.json
    THEN [r EXCEPT !.pc = "done", !.resp = ChatCatch]
    ELSE IF MessageRejected(r.message)
    THEN [r EXCEPT !.pc = "done",
                   !.resp = Response(400, [error |-> MessageRequired], FALSE)]
    ELSE [r EXCEPT !.op = "chat", !.pc = "calling",
                   !.sid = ChatSessionId(r.sessionId)]

\* ----------------------------------------------------------------- actions
\* A request arrives and fetch runs to its first await.
Fetch(q) ==
    /\ Len(reqs) < MaxReq
    /\ reqs' = Append(reqs, Route(q))
    /\ UNCHANGED <<table, sqlite_sequence, log, ncalls>>

\* request.json() of chat request i settles and fetch runs on.
ReadBody(i) ==
    /\ reqs[i].pc = "body"
    /\ reqs' = [reqs EXCEPT ![i] = ChatRoute(reqs[i])]
    /\ UNCHANGED <<table, sqlite_sequence, log, ncalls>>

\* chat(userMessage), lines 76-93: append the user message, read the
\* history, build the message list and call env.AI.run.
ChatStart(i) ==
    LET r == reqs[i]
        n == GetByName(r.sid)
        rows == AddMessage(table[n], sqlite_sequence[n], "user", r.message.v)
        seqno == SeqAfterAdd(table[n], sqlite_sequence[n])
        history == GetHistory(rows)
    IN /\ r.pc = "calling" /\ r.op = "chat"
       /\ table' = [table EXCEPT ![n] = SqlSelect(rows)]
       /\ sqlite_sequence' = [sqlite_sequence EXCEPT ![n] = seqno]
       /\ reqs' = [reqs EXCEPT ![i].pc = "inference",
                               ![i].ai = "pending",
                               ![i].aiInput = AiMessages(history),
                               ![i].aiCalls = r.aiCalls + 1,
                               ![i].h0 = GetHistory(table[n])]
       /\ log' = log \o <<Inserted(i, r.sid, seqno, "user", r.message.v),
                          Selected(i, r.sid, history)>>
       /\ UNCHANGED ncalls

\* chat, lines 95-104: env.AI.run resolved to response; store the
\* assistant message and return it.
ChatFinish(i, response) ==
    LET r == reqs[i]
        n == GetByName(r.sid)
        assistantMessage == AssistantMessage(response)
        rows == AddMessage(table[n], sqlite_sequence[n], "assistant", assistantMessage)
        seqno == SeqAfterAdd(table[n], sqlite_sequence[n])
    IN /\ r.pc = "inference"
       /\ table' = [table EXCEPT ![n] = rows]
       /\ sqlite_sequence' = [sqlite_sequence EXCEPT ![n] = seqno]
       /\ reqs' = [reqs EXCEPT ![i].pc = "returned",
                               ![i].ai = "resolved",
                               ![i].ret = Str(assistantMessage)]
       /\ log' = Append(log, Inserted(i, r.sid, seqno, "assistant", assistantMessage))
       /\ UNCHANGED ncalls

\* env.AI.run rejected: chat throws (line 91).
ChatFail(i) ==
    LET r == reqs[i]
    IN /\ r.pc = "inference"
       /\ reqs' = [reqs EXCEPT ![i] = Rejected(r)]
       /\ UNCHANGED <<table, sqlite_sequence, log, ncalls>>

\* getHistory() runs on the session object for a GET /api/history.
History(i) ==
    LET r == reqs[i]
        n == GetByName(r.sid)
        history == GetHistory(table[n])
    IN /\ r.pc = "calling" /\ r.op = "getHistory"
       /\ reqs' = [reqs EXCEPT ![i].pc = "returned", ![i].ret = Arr(history)]
       /\ log' = Append(log, Selected(i, r.sid, history))
       /\ table' = [table EXCEPT ![n] = SqlSelect(table[n])]
       /\ UNCHANGED <<sqlite_sequence, ncalls>>

\* clearHistory() runs on the session object for a DELETE /api/clear.
Clear(i) ==
    LET r == reqs[i]
        n == GetByName(r.sid)
    IN /\ r.pc = "calling" /\ r.op = "clearHistory"
       /\ table' = [table EXCEPT ![n] = ClearHistory(table[n])]
       /\ reqs' = [reqs EXCEPT ![i].pc = "returned"]
       /\ log' = Append(log, Deleted(i, r.sid))
       /\ UNCHANGED <<sqlite_sequence, ncalls>>

\* fetch resumes after its call on the session object and responds.
Respond(i) ==
    /\ reqs[i].pc = "returned"
    /\ reqs' = [reqs EXCEPT ![i].pc = "done", ![i].resp = Reply(reqs[i])]
    /\ UNCHANGED <<table, sqlite_sequence, log, ncalls>>

Next ==
    \/ \E q \in HttpRequests : Fetch(q)
    \/ \E i \in 1..Len(reqs) : ReadBody(i)
    \/ \E i \in 1..Len(reqs) : ChatStart(i)
    \/ \E i \in 1..Len(reqs), response \in AiResults : ChatFinish(i, response)
    \/ \E i \in 1..Len(reqs) : ChatFail(i)
    \/ \E i \in 1..Len(reqs) : History(i)
    \/ \E i \in 1..Len(reqs) : Clear(i)
    \/ \E i \in 1..Len(reqs) : Respond(i)

Spec == Init /\ [][Next]_vars

\* The steps of request i inside its session object.
Delivered(i) ==
    i \in 1..Len(reqs) /\ (ChatStart(i) \/ History(i) \/ Clear(i))

\* env.AI.run called for request i settles: it resolves or it rejects.
Settled(i) ==
    /\ i \in 1..Len(reqs)
    /\ (\E response \in AiResults : ChatFinish(i, response)) \/ ChatFail(i)

\* The steps of request i inside the Worker's fetch after its receipt.
Resumed(i) ==
    i \in 1..Len(reqs) /\ (ReadBody(i) \/ Respond(i))

\* Spec with its scheduling: the read of a request body settles, a call
\* made on a session object is delivered to it, every call of env.AI.run
\* settles (the claim's assumption) and fetch resumes when what it awaits
\* has settled.  No request has to arrive.
FairSpec ==
    /\ Spec
    /\ \A i \in 1..MaxReq :
           WF_vars(Delivered(i)) /\ WF_vars(Settled(i)) /\ WF_vars(Resumed(i))

\* ------------------------------------------- the session object on its own
\* The public methods of MyDurableObject called directly on the object of
\* name n (req 0 in log), one call at a time.
StoreNames == {DefaultSession, "abc"}

CallAddMessage(n, role, content) ==
    /\ ncalls < MaxCalls
    /\ ncalls' = ncalls + 1
    /\ table' = [table EXCEPT
                    ![n] = AddMessage(table[n], sqlite_sequence[n], role, content)]
    /\ sqlite_sequence' = [sqlite_sequence EXCEPT
                    ![n] = SeqAfterAdd(table[n], sqlite_sequence[n])]
    /\ log' = Append(log, Inserted(0, n, sqlite_sequence'[n], role, content))
    /\ UNCHANGED reqs

CallGetHistory(n) ==
    /\ ncalls < MaxCalls
    /\ ncalls' = ncalls + 1
    /\ log' = Append(log, Selected(0, n, GetHistory(table[n])))
    /\ table' = [table EXCEPT ![n] = SqlSelect(table[n])]
    /\ UNCHANGED <<sqlite_sequence, reqs>>

CallClearHistory(n) ==
    /\ ncalls < MaxCalls
    /\ ncalls' = ncalls + 1
    /\ table' = [table EXCEPT ![n] = ClearHistory(table[n])]
    /\ log' = Append(log, Deleted(0, n))
    /\ UNCHANGED <<sqlite_sequence, reqs>>

StoreNext ==
    \/ \E n \in StoreNames, role \in Roles, content \in Contents :
            CallAddMessage(n, role, content)
    \/ \E n \in StoreNames : CallGetHistory(n)
    \/ \E n \in StoreNames : CallClearHistory(n)

StoreSpec == Init /\ [][StoreNext]_vars

\* ------------------------------------------------- reading the history log
Prefix(lg, k) == SubSeq(lg, 1, k)

IsInsertOn(e, s) == e.sid = s /\ e.op = "insert"
IsDeleteOn(e, s) == e.sid = s /\ e.op = "delete"
IsEffectOn(e, s) == IsInsertOn(e, s) \/ IsDeleteOn(e, s)

\* The position of the last DELETE on session s in lg, 0 when there is none.
LastDelete(lg, s) ==
    LET D == {k \in 1..Len(lg) : IsDeleteOn(lg[k], s)}
    IN IF D = {} THEN 0 ELSE Max(D)

\* The entries of lg that insert into session s after position k, in order.
InsertsAfter(lg, s, k) ==
    SelectSeq(SubSeq(lg, k + 1, Len(lg)), LAMBDA e : IsInsertOn(e, s))

\* The messages appended to session s and not cleared since, in the order
\* of their appends.
Appended(lg, s) ==
    LET ins == InsertsAfter(lg, s, LastDelete(lg, s))
    IN [k \in 1..Len(ins) |-> ChatMessage(ins[k].row.role, ins[k].row.content)]

\* The positions in lg of the inserts made by request i with the given role.
InsertsOf(lg, i, role) ==
    {k \in 1..Len(lg) : lg[k].req = i /\ lg[k].op = "insert" /\ lg[k].row.role = role}

\* ================================================================= claims

\* C1: no two chat / addMessage / clearHistory calls on one session
\* interleave their storage effects: between the user-message append and the
\* assistant-message append of a chat call no other call appends to or
\* deletes from the same session.
C1_NoInterleaving ==
    \A i \in 1..Len(reqs) :
        \A k \in InsertsOf(log, i, "user"), j \in InsertsOf(log, i, "assistant") :
            \A e \in (k + 1)..(j - 1) :
                IsEffectOn(log[e], log[k].sid) => log[e].req = i

\* C2: on a session that was never cleared, getHistory returns exactly the
\* messages appended by addMessage, in the order appended, role and content
\* unchanged: this holds of every list getHistory has returned and of what
\* it would return now.
C2_HistoryIsAppendOrder ==
    /\ \A n \in SessionNames :
           LastDelete(log, n) = 0 => GetHistory(table[n]) = Appended(log, n)
    /\ \A k \in 1..Len(log) :
           (log[k].op = "select" /\ LastDelete(Prefix(log, k), log[k].sid) = 0)
               => log[k].result = Appended(Prefix(log, k), log[k].sid)

\* C2 witness: getHistory returned three messages, not all alike, from a
\* session that was never cleared.
C2_Witness ==
    \E k \in 1..Len(log) :
        /\ log[k].op = "select"
        /\ LastDelete(log, log[k].sid) = 0
        /\ Len(log[k].result) = 3
        /\ log[k].result[1] # log[k].result[2]
        /\ log[k].result[2].role # log[k].result[3].role

\* No other call has appended to or deleted from the session of chat
\* request i since i appended its user message.
Quiet(i, lg) ==
    \A k \in InsertsOf(lg, i, "user") :
        \A e \in (k + 1)..Len(lg) :
            IsEffectOn(lg[e], reqs[i].sid) => lg[e].req = i

\* C3: when chat(m) runs on a session of history H with no other call
\* touching that session meanwhile, the list passed to the inference client
\* is [system prompt] ++ H ++ [{user, m}], and when inference succeeds the
\* history right afterwards is H ++ [{user, m}, {assistant, completion}].
C3_ChatOnQuietSession ==
    [][\A i \in 1..Len(reqs) :
          (reqs[i].pc = "inference" /\ reqs'[i].ai = "resolved" /\ Quiet(i, log'))
          => LET r == reqs[i]
                 user == ChatMessage("user", r.message.v)
                 completion == reqs'[i].ret.v
             IN /\ r.aiInput = <<ChatMessage("system", SystemPrompt)>>
                                   \o r.h0 \o <<user>>
                /\ GetHistory(table'[r.sid])
                       = r.h0 \o <<user, ChatMessage("assistant", completion)>>
                /\ (r.h0 = <<>> => Len(GetHistory(table'[r.sid])) = 2)
      ]_vars

\* C3 witness: a chat call has succeeded on a session that already held
\* two messages, undisturbed, and the session now holds four.
C3_Witness ==
    \E i \in 1..Len(reqs) :
        /\ reqs[i].ai = "resolved"
        /\ Quiet(i, log)
        /\ Len(reqs[i].h0) = 2
        /\ Len(GetHistory(table[reqs[i].sid])) = 4

\* C4: when the inference call of a chat request fails, the response of
\* the request is 500 with error "Failed to process chat request" and no
\* other, the request has appended its user message and no assistant
\* message, and the user message is still in the session unless a
\* clearHistory on that session ran after it.
C4_InferenceFailure ==
    \A i \in 1..Len(reqs) :
        reqs[i].ai = "rejected"
        => /\ reqs[i].pc \in {"returned", "done"}
           /\ reqs[i].resp \in {Pending, ChatCatch}
           /\ reqs[i].pc = "done"
                  => (/\ reqs[i].resp.status = 500
                      /\ reqs[i].resp.body = [error |-> ChatFailed])
           /\ InsertsOf(log, i, "assistant") = {}
           /\ Cardinality(InsertsOf(log, i, "user")) = 1
           /\ \A k \in InsertsOf(log, i, "user") :
                 /\ log[k].row.content = reqs[i].message.v
                 /\ LastDelete(log, reqs[i].sid) < k
                        => log[k].row \in table[reqs[i].sid]

\* C4 witness: an inference call has failed, the request was answered and
\* its user message is the only message of its session.
C4_Witness ==
    \E i \in 1..Len(reqs) :
        /\ reqs[i].ai = "rejected"
        /\ reqs[i].pc = "done"
        /\ GetHistory(table[reqs[i].sid])
               = <<ChatMessage("user", reqs[i].message.v)>>

\* The message field is missing, empty, or not a string.
BadMessage(m) == m.t = "undefined" \/ m.t # "string" \/ m.v = ""

\* Request q is a POST /api/chat whose message field is missing, empty or
\* not a string.  A body that is absent, not JSON, or the JSON value null
\* (json = FALSE) has no message field.
IsBadChat(q) ==
    q.method = "POST" /\ q.path = "/api/chat" /\ BadMessage(q.message)

\* C5: every POST /api/chat whose message field is missing, empty or not a
\* string is answered 400 with error "Message is required" (until then it
\* waits for its body and makes no call on a session); the inference client
\* is not invoked for it and it executes no statement on any session, so
\* the history of every session is left as it was.
C5_BadMessageIs400 ==
    \A i \in 1..Len(reqs) :
        IsBadChat(reqs[i])
        => /\ reqs[i].pc \in {"body", "done"}
           /\ reqs[i].op = "none"
           /\ reqs[i].pc = "done"
                  => (/\ reqs[i].resp.status = 400
                      /\ reqs[i].resp.body = [error |-> MessageRequired])
           /\ reqs[i].ai = "none" /\ reqs[i].aiCalls = 0
           /\ \A k \in 1..Len(log) : log[k].req # i

\* C6: sessions are isolated: a step changes what getHistory returns for
\* session b only if every statement it executes is addressed to b, so no
\* chat, addMessage or clearHistory on another session changes b's history.
C6_SessionsIsolated ==
    [][\A b \in SessionNames :
          GetHistory(table'[b]) # GetHistory(table[b])
          => /\ Len(log') > Len(log)
             /\ \A k \in (Len(log) + 1)..Len(log') : log'[k].sid = b
      ]_vars

\* C6 witness: two sessions hold messages while a chat call on one of them
\* waits for the inference client.
C6_Witness ==
    \E i \in 1..Len(reqs), b \in SessionNames :
        /\ reqs[i].pc = "inference"
        /\ b # reqs[i].sid
        /\ table[b] # {}
        /\ table[reqs[i].sid] # {}

\* C7: once clearHistory has run on a session, getHistory returns exactly
\* the messages appended after the last clear, in order: the empty list
\* until the next append, and never a message appended before the clear.
C7_ClearStartsAfresh ==
    \A s \in SessionNames :
        LastDelete(log, s) > 0 => GetHistory(table[s]) = Appended(log, s)

\* C7 witness: a session that held a message was cleared and has been
\* appended to since.
C7_Witness ==
    \E s \in SessionNames :
        /\ LastDelete(log, s) > 0
        /\ \E k \in 1..LastDelete(log, s) : IsInsertOn(log[k], s)
        /\ table[s] # {}

\* C8: the list a GET /api/history request returns holds every message
\* appended to its session before getHistory ran and not cleared since,
\* each whole (role and content), and nothing else.
C8_HistoryReflectsAppends ==
    \A i \in 1..Len(reqs) :
        (reqs[i].op = "getHistory" /\ reqs[i].pc = "done")
        => /\ reqs[i].resp.status = 200
           /\ \E k \in 1..Len(log) :
                 /\ log[k].req = i /\ log[k].op = "select"
                 /\ reqs[i].resp.body.history
                        = Appended(Prefix(log, k), reqs[i].sid)

\* C8 witness: a history request returned two messages.
C8_Witness ==
    \E i \in 1..Len(reqs) :
        /\ reqs[i].op = "getHistory" /\ reqs[i].pc = "done"
        /\ Len(reqs[i].resp.body.history) = 2

\* The rows inserted into session s and not deleted since, by the log.
LiveRows(lg, s) ==
    {lg[k].row : k \in {j \in (LastDelete(lg, s) + 1)..Len(lg) : IsInsertOn(lg[j], s)}}

\* C9: within one session the id given to an appended message is greater
\* than the id given to every message appended earlier, also across
\* clearHistory, so no id is assigned twice; the rows of the table carry
\* these ids.
C9_IdsIncrease ==
    /\ \A j, k \in 1..Len(log) :
           (j < k /\ log[j].op = "insert" /\ IsInsertOn(log[k], log[j].sid))
               => log[j].row.id < log[k].row.id
    /\ \A n \in SessionNames : table[n] = LiveRows(log, n)

\* C9 witness: a session was appended to, cleared and appended to again.
C9_Witness ==
    \E s \in SessionNames :
        /\ LastDelete(log, s) > 0
        /\ \E k \in 1..LastDelete(log, s) : IsInsertOn(log[k], s)
        /\ \E r \in table[s] : r.id > 1

\* Request q is one of the routes the handler is said to serve.
IsListedRoute(q) ==
    \/ q.method = "OPTIONS"
    \/ q.method = "POST" /\ q.path = "/api/chat"
    \/ q.method = "GET" /\ q.path = "/api/history"
    \/ q.method = "DELETE" /\ q.path = "/api/clear"
    \/ q.method = "GET" /\ q.path = "/api/health"

\* C10: every request that is not POST /api/chat, GET /api/history,
\* DELETE /api/clear, GET /api/health or an OPTIONS request is answered
\* 404 "Not Found" and executes no statement on any session.
C10_UnlistedIs404 ==
    \A i \in 1..Len(reqs) :
        ~IsListedRoute(reqs[i])
        => /\ reqs[i].resp.status = 404
           /\ reqs[i].resp.body = [text |-> NotFound]
           /\ \A k \in 1..Len(log) : log[k].req # i

\* C11: getHistory is a pure read: a step that only runs its SELECT leaves
\* the table and the id counter of every session as they were, and two
\* getHistory calls on one session with no append or clear on it between
\* them return equal lists.
C11_GetHistoryIsPure ==
    /\ [][(Len(log') = Len(log) + 1 /\ log'[Len(log')].op = "select")
            => (table' = table /\ sqlite_sequence' = sqlite_sequence)]_vars
    /\ [](\A j, k \in 1..Len(log) :
             (/\ j < k
              /\ log[j].op = "select" /\ log[k].op = "select"
              /\ log[j].sid = log[k].sid
              /\ \A e \in (j + 1)..(k - 1) : ~IsEffectOn(log[e], log[j].sid))
             => log[j].result = log[k].result)

\* C11 witness: getHistory was called twice in a row on a session that
\* holds two messages.
C11_Witness ==
    \E k \in 2..Len(log) :
        /\ log[k].op = "select" /\ log[k - 1].op = "select"
        /\ log[k].sid = log[k - 1].sid
        /\ Len(log[k].result) = 2
        /\ Len(GetHistory(table[log[k].sid])) = 2

\* C12: when the inference client returns an object whose response field is
\* absent, chat does not fail: in that step it appends the apology text as
\* the assistant message (one statement) and returns it; and a chat call
\* that returned is answered 200 with the text it returned, never 500.
C12_AbsentResponseIsApology ==
    /\ [][\A i \in 1..Len(reqs) :
             ChatFinish(i, Obj(Undefined))
             => /\ reqs'[i].ai = "resolved"
                /\ reqs'[i].ret = Str(Apology)
                /\ Len(log') = Len(log) + 1
                /\ log'[Len(log')].req = i
                /\ log'[Len(log')].op = "insert"
                /\ log'[Len(log')].row.role = "assistant"
                /\ log'[Len(log')].row.content = Apology
                /\ log'[Len(log')].row \in table'[reqs[i].sid]
       ]_vars
    /\ [](\A i \in 1..Len(reqs) :
             (reqs[i].ai = "resolved" /\ reqs[i].pc = "done")
             => /\ reqs[i].resp.status = 200
                /\ reqs[i].ret = Str(Apology)
                       => reqs[i].resp.body.response = Apology)

\* C12 witness: a chat request whose call returned the apology text was
\* answered with it, and its session ends with that text.
C12_Witness ==
    \E i \in 1..Len(reqs) :
        LET h == GetHistory(table[reqs[i].sid])
        IN /\ reqs[i].ai = "resolved" /\ reqs[i].pc = "done"
           /\ reqs[i].resp.body.response = Apology
           /\ Len(h) = 2
           /\ h[2] = ChatMessage("assistant", Apology)

\* C13: a chat request invokes the inference client at most once (once when
\* it got that far), appends exactly one user message and at most one
\* assistant message, none after a failure; once its call on the session
\* has ended (returned or failed) a request makes no further call and
\* executes no further statement, and once answered it takes no step.
C13_NoRetry ==
    /\ [](\A i \in 1..Len(reqs) :
             /\ reqs[i].aiCalls <= 1
             /\ Cardinality(InsertsOf(log, i, "user")) <= 1
             /\ Cardinality(InsertsOf(log, i, "assistant")) <= 1
             /\ (reqs[i].op = "chat" /\ reqs[i].pc # "calling")
                    => (reqs[i].aiCalls = 1
                        /\ Cardinality(InsertsOf(log, i, "user")) = 1)
             /\ reqs[i].ai = "rejected"
                    => (/\ reqs[i].pc \in {"returned", "done"}
                        /\ InsertsOf(log, i, "assistant") = {}))
    /\ [][\A i \in 1..Len(reqs) :
             /\ reqs[i].pc = "done" => reqs'[i] = reqs[i]
             /\ (reqs[i].pc \in {"returned", "done"})
                    => (/\ reqs'[i].pc \in {"returned", "done"}
                        /\ reqs'[i].aiCalls = reqs[i].aiCalls
                        /\ \A k \in (Len(log) + 1)..Len(log') : log'[k].req # i)
       ]_vars

\* C13 witness: one chat request failed and another one, served after the
\* failure, succeeded.
C13_Witness ==
    \E i, j \in 1..Len(reqs) :
        /\ reqs[i].ai = "rejected" /\ reqs[i].pc = "done"
        /\ reqs[j].ai = "resolved" /\ reqs[j].pc = "done"
        /\ \E k \in InsertsOf(log, j, "user") :
               \A e \in InsertsOf(log, i, "user") : e < k

\* C14: for every successful chat call the text the call returned, which
\* is the text in the response field of the HTTP reply, is the content of
\* the assistant message that call appended, and the table holds that
\* message under role assistant unless the session was cleared afterwards.
C14_ReplyIsStoredMessage ==
    \A i \in 1..Len(reqs) :
        reqs[i].ai = "resolved"
        => /\ reqs[i].ret.t = "string"
           /\ reqs[i].pc = "done"
                  => (/\ reqs[i].resp.status = 200
                      /\ reqs[i].resp.body.response = reqs[i].ret.v)
           /\ \E k \in InsertsOf(log, i, "assistant") :
                 /\ log[k].row.content = reqs[i].ret.v
                 /\ LastDelete(log, reqs[i].sid) < k
                        => [id |-> log[k].row.id, role |-> "assistant",
                            content |-> reqs[i].ret.v]
                               \in table[reqs[i].sid]

\* C14 witness: a chat call returned the text of the inference client and
\* its session ends with that text.
C14_Witness ==
    \E i \in 1..Len(reqs) :
        LET h == GetHistory(table[reqs[i].sid])
        IN /\ reqs[i].ai = "resolved"
           /\ reqs[i].pc = "done"
           /\ reqs[i].resp.body.response = "Hello!"
           /\ Len(h) = 2
           /\ h[2] = ChatMessage("assistant", "Hello!")

\* C15: every message stored in any session has non-empty content,
\* whatever the inference client returns.
C15_ContentNonEmpty ==
    \A n \in SessionNames : \A r \in table[n] : r.content # ""

\* C16: every assistant message in a session's history is immediately
\* preceded by the user message of the chat call that produced it.
C16_ReplyFollowsPrompt ==
    \A s \in SessionNames : \A a \in table[s] :
        a.role = "assistant"
        => \E k \in 1..Len(log) :
              /\ IsInsertOn(log[k], s) /\ log[k].row = a
              /\ \E j \in InsertsOf(log, log[k].req, "user") :
                    /\ log[j].row \in table[s]
                    /\ log[j].row.id < a.id
                    /\ ~\E x \in table[s] : log[j].row.id < x.id /\ x.id < a.id

\* C17: through the HTTP routes no message of role system is stored; every
\* list passed to the inference client holds exactly one system message,
\* the first, and ends with the user message of the chat call that passes it.
C17_OneSystemMessage ==
    /\ \A n \in SessionNames : \A r \in table[n] : r.role # "system"
    /\ \A i \in 1..Len(reqs) :
           reqs[i].ai # "none"
           => LET m == reqs[i].aiInput
              IN /\ Len(m) >= 2
                 /\ m[1] = ChatMessage("system", SystemPrompt)
                 /\ \A k \in 2..Len(m) : m[k].role # "system"
                 /\ m[Len(m)] = ChatMessage("user", reqs[i].message.v)

\* C17 witness: a chat call passed the system prompt, an earlier exchange
\* and its own user message to the inference client.
C17_Witness ==
    \E i \in 1..Len(reqs) :
        /\ reqs[i].ai # "none"
        /\ Len(reqs[i].aiInput) = 4
        /\ reqs[i].aiInput[3].role = "assistant"

\* The sessionId a request supplied: omitted, or a string.
Supplied(r) ==
    IF r.sessionId.t \in {"undefined", "null"} THEN <<"omitted">>
    ELSE <<"string", r.sessionId.v>>

\* C18: the chat, history and clear routes resolve the same supplied
\* sessionId (omitted, empty, non-empty) to the same session, an omitted one
\* to "default", and the sessionId of a response names the session used.
C18_SameSessionOnAllRoutes ==
    \A i, j \in 1..Len(reqs) :
        (reqs[i].op # "none" /\ reqs[j].op # "none")
        => /\ Supplied(reqs[i]) = Supplied(reqs[j]) => reqs[i].sid = reqs[j].sid
           /\ Supplied(reqs[i]) = <<"omitted">> => reqs[i].sid = DefaultSession
           /\ reqs[i].resp.status = 200
                  => (/\ reqs[i].resp.body.sessionId = reqs[i].sid
                      /\ \A k \in 1..Len(log) :
                             log[k].req = i => log[k].sid = reqs[i].sid)

\* C19: with every inference call settling, every request is answered, a
\* POST /api/chat with 200, 400 or 500, and answered once (a response is
\* given only to a request that has none, and the response of an answered
\* request never changes); and while a chat call waits for the inference
\* client, a request on another session that is not yet answered can take
\* its next step.
C19_EveryRequestAnswered ==
    /\ \A i \in 1..MaxReq :
           (Len(reqs) >= i) ~> (Len(reqs) >= i /\ reqs[i].pc = "done")
    /\ [](\A i \in 1..Len(reqs) :
             /\ (reqs[i].pc = "done" /\ reqs[i].method = "POST"
                     /\ reqs[i].path = "/api/chat")
                    => reqs[i].resp.status \in {200, 400, 500}
             /\ reqs[i].pc # "done" => reqs[i].resp = Pending)
    /\ [][\A i \in 1..Len(reqs) :
             reqs[i].pc = "done"
             => (reqs'[i].pc = "done" /\ reqs'[i].resp = reqs[i].resp)]_vars
    /\ [](\A i, j \in 1..Len(reqs) :
             (reqs[i].pc = "inference" /\ reqs[j].op # "none"
                  /\ reqs[j].pc # "done" /\ reqs[j].sid # reqs[i].sid)
             => ENABLED (Delivered(j) \/ Settled(j) \/ Resumed(j)))

\* C19 witness: a request on another session was served and answered while
\* a chat call was waiting for the inference client.
C19_Witness ==
    \E i, j \in 1..Len(reqs) :
        /\ reqs[i].pc = "inference"
        /\ reqs[j].pc = "done" /\ reqs[j].op # "none"
        /\ reqs[j].sid # reqs[i].sid
        /\ \E k \in 1..Len(log), e \in InsertsOf(log, i, "user") :
               log[k].req = j /\ e < k

====
